---- MODULE Spec2Model ----
(***************************************************************************)
(* Model of the Billtrust Collections binding library                      *)
(* (src/billtrust-collections.py).                                         *)
(*                                                                         *)
(* Every public function is one action: the caller picks the arguments,    *)
(* the server (or the network) picks the outcome of the single HTTP        *)
(* exchange, and the action records what the function did: how many        *)
(* requests it issued, which body it sent, what it logged and whether it   *)
(* returned a value or let an exception escape.                            *)
(*                                                                         *)
(* Python strings are TLA+ strings; a character is a string of length 1.  *)
(* JSON documents are tagged records [t, v]:                               *)
(*    t = "str"  v = the string                                            *)
(*    t = "obj"  v = a function from keys to JSON documents (a dict)       *)
(*    t = "arr"  v = a sequence of JSON documents (a list)                 *)
(*    t = "none" Python's None                                             *)
(*    t = "bad"  a response body that response.json() cannot decode        *)
(***************************************************************************)
EXTENDS Integers, Sequences, FiniteSets, TLC

VARIABLES pc, fn, args, outcome, locals, bodyString, sentBody, requests, log, result

vars == <<pc, fn, args, outcome, locals, bodyString, sentBody, requests, log, result>>

(***************************************************************************)
(* Values                                                                  *)
(***************************************************************************)
JStr(s) == [t |-> "str", v |-> s]

JObj(f) == [t |-> "obj", v |-> f]

JArr(q) == [t |-> "arr", v |-> q]

JNone == [t |-> "none", v |-> ""]

JBad == [t |-> "bad", v |-> ""]

EmptyDict == [k \in {} |-> JNone]

Return(v) == [kind |-> "return", val |-> v]

Raise(e) == [kind |-> "raise", val |-> [t |-> "exc", v |-> e]]

(***************************************************************************)
(* Python string primitives.                                               *)
(***************************************************************************)
\* s[i-1:i] of Python: the character at 1-based position i, "" past the end.
Ch(s, i) == IF i >= 1 /\ i <= Len(s) THEN SubSeq(s, i, i) ELSE ""

\* Faulty variant of StrReplace: removes only the first occurrence.
RECURSIVE StrReplaceFirst(_, _, _)
StrReplaceFirst(s, old, new) ==
    IF s = "" THEN ""
    ELSE IF Ch(s, 1) = old THEN new \o SubSeq(s, 2, Len(s))
    ELSE Ch(s, 1) \o StrReplaceFirst(SubSeq(s, 2, Len(s)), old, new)

\* str.replace(old, new) for a one-character old: every occurrence, in order.
RECURSIVE StrReplace(_, _, _)
StrReplace(s, old, new) ==
    IF s = "" THEN ""
    ELSE (IF Ch(s, 1) = old THEN new ELSE Ch(s, 1))
             \o StrReplace(SubSeq(s, 2, Len(s)), old, new)

(***************************************************************************)
(* json.loads, as the standard decoder scans a str: whitespace, strings    *)
(* with escapes (strict: no raw control character inside a string),        *)
(* objects (a repeated key keeps its last value) and arrays, and nothing   *)
(* after the document.  Numbers and the literals true/false/null are left  *)
(* out: no body the model builds has one at a value position, because      *)
(* every caller field is embedded between two double quotes and the field  *)
(* values enumerated below contain no bare literal.  The escapes \b and    *)
(* \uXXXX are left out for the same reason.                                *)
(***************************************************************************)
WHITESPACE == {" ", "\t", "\n", "\r"}

\* Faulty variant of ControlChars: decoding with strict=False.
ControlCharsNonStrict == {}

\* The control characters a strict decoder rejects inside a string (those
\* that a TLA+ string can hold).
ControlChars == {"\t", "\n", "\r", "\f"}

BACKSLASH == [c \in {"\"", "\\", "/", "f", "n", "r", "t"} |->
                 CASE c = "f" -> "\f"
                   [] c = "n" -> "\n"
                   [] c = "r" -> "\r"
                   [] c = "t" -> "\t"
                   [] OTHER -> c]

ParseFail == [ok |-> FALSE, val |-> JNone, end |-> 0]

ParseOk(v, e) == [ok |-> TRUE, val |-> v, end |-> e]

RECURSIVE SkipWs(_, _)
SkipWs(s, i) == IF Ch(s, i) \in WHITESPACE THEN SkipWs(s, i + 1) ELSE i

\* i is the position after the opening quote; acc is the decoded prefix.
RECURSIVE py_scanstring(_, _, _)
py_scanstring(s, i, acc) ==
    LET c == Ch(s, i) IN
    IF c = "" THEN ParseFail
    ELSE IF c = "\"" THEN ParseOk(JStr(acc), i + 1)
    ELSE IF c \in ControlChars THEN ParseFail
    ELSE IF c # "\\" THEN py_scanstring(s, i + 1, acc \o c)
    ELSE LET e == Ch(s, i + 1) IN
         IF e \in DOMAIN BACKSLASH
         THEN py_scanstring(s, i + 2, acc \o BACKSLASH[e])
         ELSE ParseFail

RECURSIVE scan_once(_, _)
RECURSIVE JSONObjectMembers(_, _, _)
RECURSIVE JSONArrayItems(_, _, _)

\* i is the position after "{".
JSONObject(s, i) ==
    LET j == SkipWs(s, i) IN
    IF Ch(s, j) = "}" THEN ParseOk(JObj(EmptyDict), j + 1)
    ELSE IF Ch(s, j) # "\"" THEN ParseFail
    ELSE JSONObjectMembers(s, j + 1, EmptyDict)

\* i is the position after the opening quote of the next key.
JSONObjectMembers(s, i, acc) ==
    LET k == py_scanstring(s, i, "") IN
    IF ~k.ok THEN ParseFail
    ELSE
    LET c == SkipWs(s, k.end) IN
    IF Ch(s, c) # ":" THEN ParseFail
    ELSE
    LET v == scan_once(s, SkipWs(s, c + 1)) IN
    IF ~v.ok THEN ParseFail
    ELSE
    LET e    == SkipWs(s, v.end)
        acc2 == (k.val.v :> v.val) @@ acc
    IN
    IF Ch(s, e) = "}" THEN ParseOk(JObj(acc2), e + 1)
    ELSE IF Ch(s, e) # "," THEN ParseFail
    ELSE
    LET n == SkipWs(s, e + 1) IN
    IF Ch(s, n) # "\"" THEN ParseFail
    ELSE JSONObjectMembers(s, n + 1, acc2)

\* i is the position after "[".
JSONArray(s, i) ==
    LET j == SkipWs(s, i) IN
    IF Ch(s, j) = "]" THEN ParseOk(JArr(<<>>), j + 1)
    ELSE JSONArrayItems(s, j, <<>>)

\* i is the position of the next item.
JSONArrayItems(s, i, acc) ==
    LET v == scan_once(s, i) IN
    IF ~v.ok THEN ParseFail
    ELSE
    LET e    == SkipWs(s, v.end)
        acc2 == Append(acc, v.val)
    IN
    IF Ch(s, e) = "]" THEN ParseOk(JArr(acc2), e + 1)
    ELSE IF Ch(s, e) # "," THEN ParseFail
    ELSE JSONArrayItems(s, SkipWs(s, e + 1), acc2)

scan_once(s, i) ==
    LET c == Ch(s, i) IN
    IF c = "\"" THEN py_scanstring(s, i + 1, "")
    ELSE IF c = "{" THEN JSONObject(s, i + 1)
    ELSE IF c = "[" THEN JSONArray(s, i + 1)
    ELSE ParseFail

\* json.loads(s): ok is FALSE where the decoder raises JSONDecodeError.
json_loads(s) ==
    LET r == scan_once(s, SkipWs(s, 1)) IN
    IF ~r.ok THEN ParseFail
    ELSE IF SkipWs(s, r.end) # Len(s) + 1 THEN ParseFail
    ELSE r

(***************************************************************************)
(* The HTTP exchange.  The network either fails the call of requests.post, *)
(* requests.get, requests.patch or requests.delete (transport), or the     *)
(* server answers with a status and a body.                                *)
(***************************************************************************)
Statuses == {200, 304, 404, 500}

TransportError == [transport |-> TRUE, status |-> 0, body |-> JBad]

NoOutcome == [transport |-> FALSE, status |-> 0, body |-> JNone]

ErrorBody == JObj([message |-> JStr("error")])

Outcomes(bodies) ==
    {TransportError} \cup
    {[transport |-> FALSE, status |-> s, body |-> b] : s \in Statuses, b \in bodies}

\* Faulty variant of raise_for_status: only server errors raise.
raise_for_status_5xx(status) == status >= 500 /\ status < 600

\* Response.raise_for_status(): TRUE where it raises HTTPError, which is for
\* the client and server error statuses only.
raise_for_status(status) == status >= 400 /\ status < 600

\* Response.json(): TRUE where the body decodes.
CanDecode(body) == body.t # "bad"

\* Faulty variant of Issue: a failed attempt is followed by a second one.
IssueTwice(n) == n + 2

\* One call of requests.post/get/patch/delete puts one request on the wire.
Issue(n) == n + 1

(***************************************************************************)
(* What one call of a public function did.                                 *)
(***************************************************************************)
NoLocals == [k \in {} |-> ""]

Effect(res, nreq, sent, lg) ==
    [result |-> res, requests |-> nreq, sentBody |-> sent, log |-> lg,
     locals |-> NoLocals, bodyString |-> ""]

(***************************************************************************)
(* Session functions and plain read functions: no try block.               *)
(***************************************************************************)
login(a, out) ==
    LET login_request == JObj([email |-> JStr(a.email), password |-> JStr(a.password)])
        E(res) == Effect(res, Issue(0), login_request, <<>>)
    IN
    IF out.transport THEN E(Raise("ConnectionError"))
    ELSE IF raise_for_status(out.status) THEN E(Raise("HTTPError"))
    ELSE IF ~CanDecode(out.body) THEN E(Raise("JSONDecodeError"))
    ELSE IF out.body.t # "obj" THEN E(Raise("TypeError"))
    ELSE IF "accessToken" \notin DOMAIN out.body.v THEN E(Raise("KeyError"))
    ELSE E(Return(out.body.v["accessToken"]))

logout(a, out) ==
    LET logout_request == JObj([accessToken |-> JStr(a.access_token)])
        E(res) == Effect(res, Issue(0), logout_request, <<>>)
    IN
    IF out.transport THEN E(Raise("ConnectionError"))
    ELSE IF raise_for_status(out.status) THEN E(Raise("HTTPError"))
    ELSE E(Return(JNone))

get_users_for_tenant(a, out) ==
    LET E(res) == Effect(res, Issue(0), JNone, <<>>) IN
    IF out.transport THEN E(Raise("ConnectionError"))
    ELSE IF raise_for_status(out.status) THEN E(Raise("HTTPError"))
    ELSE IF ~CanDecode(out.body) THEN E(Raise("JSONDecodeError"))
    ELSE E(Return(out.body))

get_accounts_for_tenant(a, out) ==
    LET E(res) == Effect(res, Issue(0), JNone, <<>>) IN
    IF out.transport THEN E(Raise("ConnectionError"))
    ELSE IF raise_for_status(out.status) THEN E(Raise("HTTPError"))
    ELSE IF ~CanDecode(out.body) THEN E(Raise("JSONDecodeError"))
    ELSE E(Return(out.body))

get_contacts_for_account(a, out) ==
    LET E(res) == Effect(res, Issue(0), JNone, <<>>) IN
    IF out.transport THEN E(Raise("ConnectionError"))
    ELSE IF raise_for_status(out.status) THEN E(Raise("HTTPError"))
    ELSE IF ~CanDecode(out.body) THEN E(Raise("JSONDecodeError"))
    ELSE E(Return(out.body))

(***************************************************************************)
(* add_contact_to_account and contact_update: the statements before the    *)
(* try block.  Both functions open with the same five statements           *)
(* (lines 223-230 and lines 474-481).                                      *)
(***************************************************************************)
\* notes.replace('"', '') then notes.replace("'", '')
SanitizeNotes(notes) == StrReplace(StrReplace(notes, "\"", ""), "'", "")

\* if len(language) < 2 : language = 'en'
DefaultLanguage(language) == IF Len(language) < 2 THEN "en" ELSE language

\* Faulty variant of DefaultTimezone: the comparison is off by one.
DefaultTimezoneOffByOne(timezone) ==
    IF Len(timezone) <= 4 THEN "America/Chicago" ELSE timezone

\* if len(timezone) < 4 : timezone = 'America/Chicago'
DefaultTimezone(timezone) == IF Len(timezone) < 4 THEN "America/Chicago" ELSE timezone

\* Faulty variant of EscapeBackslash: the name is embedded as given.
EscapeBackslashMissing(name) == name

\* first_name.replace("\\", "\\\\"): only add_contact_to_account does this.
EscapeBackslash(name) == StrReplace(name, "\\", "\\\\")

\* The parameters as the function's local variables hold them when the body
\* string is built.
AddLocals(a) ==
    [a EXCEPT !.notes = SanitizeNotes(a.notes),
              !.language = DefaultLanguage(a.language),
              !.timezone = DefaultTimezone(a.timezone),
              !.first_name = EscapeBackslash(a.first_name),
              !.last_name = EscapeBackslash(a.last_name)]

UpdateLocals(a) ==
    [a EXCEPT !.notes = SanitizeNotes(a.notes),
              !.language = DefaultLanguage(a.language),
              !.timezone = DefaultTimezone(a.timezone)]

\* Faulty variant of contact_body_string: country is embedded too.
contact_body_string_country(a) ==
       "{ \"firstName\" : \""
    \o a.first_name
    \o "\",   \"lastName\"  : \""
    \o a.last_name
    \o "\",   \"language\"  : \""
    \o a.language
    \o "\",   \"notes\"  : \""
    \o a.notes
    \o "\",   \"email\"  : \""
    \o a.email
    \o "\",   \"officePhone\"  : \""
    \o a.officePhone
    \o "\",   \"cellPhone\"  : \""
    \o a.cellPhone
    \o "\",   \"fax\"  : \""
    \o a.fax
    \o "\",   \"title\"  : \""
    \o a.title
    \o "\",   \"address1\"  : \""
    \o a.address1
    \o "\",   \"address2\"  : \""
    \o a.address2
    \o "\",   \"country\"  : \""
    \o a.country
    \o "\",   \"timezone\"  : \""
    \o a.timezone
    \o "\",   \"IncludeInCorrespondence\" : \""
    \o a.includeInCorrespondence
    \o "\"  }"

\* lines 237-250
contact_body_string(a) ==
       "{ \"firstName\" : \""
    \o a.first_name
    \o "\",   \"lastName\"  : \""
    \o a.last_name
    \o "\",   \"language\"  : \""
    \o a.language
    \o "\",   \"notes\"  : \""
    \o a.notes
    \o "\",   \"email\"  : \""
    \o a.email
    \o "\",   \"officePhone\"  : \""
    \o a.officePhone
    \o "\",   \"cellPhone\"  : \""
    \o a.cellPhone
    \o "\",   \"fax\"  : \""
    \o a.fax
    \o "\",   \"title\"  : \""
    \o a.title
    \o "\",   \"address1\"  : \""
    \o a.address1
    \o "\",   \"address2\"  : \""
    \o a.address2
    \o "\",   \"timezone\"  : \""
    \o a.timezone
    \o "\",   \"IncludeInCorrespondence\" : \""
    \o a.includeInCorrespondence
    \o "\"  }"

\* Faulty variant of update_body_string: the list ends after LastName.
update_body_string_short(a) ==
       "[{\"value\" : \""
    \o a.first_name
    \o "\", \"path\" : \"FirstName\", \"op\" : \"replace\" }, {\"value\" : \""
    \o a.last_name
    \o "\", \"path\" : \"LastName\", \"op\" : \"replace\" }]"

\* lines 484-569
update_body_string(a) ==
       "[{\"value\" : \""
    \o a.first_name
    \o "\", \"path\" : \"FirstName\", \"op\" : \"replace\" }, {\"value\" : \""
    \o a.last_name
    \o "\", \"path\" : \"LastName\", \"op\" : \"replace\" }, {\"value\" : \""
    \o a.language
    \o "\", \"path\" : \"Language\", \"op\" : \"replace\"}, {\"value\" : \""
    \o a.notes
    \o "\",     \"path\" : \"Notes\",     \"op\" : \"replace\"   },   {      \"value\" : \""
    \o a.email
    \o "\",     \"path\" : \"Email\",     \"op\" : \"replace\"   },   {      \"value\" : \""
    \o a.officePhone
    \o "\",     \"path\" : \"OfficePhone\",     \"op\" : \"replace\"   },  {    \"value\" : \""
    \o a.cellPhone
    \o "\",     \"path\" : \"CellPhone\",     \"op\" : \"replace\" },   {    \"value\" : \""
    \o a.fax
    \o "\",     \"path\" : \"Fax\",     \"op\" : \"replace\" },    {      \"value\" : \""
    \o a.title
    \o "\",     \"path\" : \"Title\",     \"op\" : \"replace\" },    {      \"value\" : \""
    \o a.address1
    \o "\",     \"path\" : \"Address1\",     \"op\" : \"replace\" },    {      \"value\" : \""
    \o a.address2
    \o "\",     \"path\" : \"Address2\",     \"op\" : \"replace\" },    {      \"value\" : \""
    \o a.city
    \o "\",     \"path\" : \"City\",     \"op\" : \"replace\" },    {      \"value\" : \""
    \o a.state
    \o "\",     \"path\" : \"State\",     \"op\" : \"replace\" },    {      \"value\" : \""
    \o a.zip
    \o "\",     \"path\" : \"Zip\",     \"op\" : \"replace\" },    {      \"value\" : \""
    \o a.country
    \o "\",     \"path\" : \"Country\",     \"op\" : \"replace\" },    {      \"value\" : \""
    \o a.timezone
    \o "\",     \"path\" : \"TimeZone\",     \"op\" : \"replace\" },    {      \"value\" : \""
    \o a.includeInCorrespondence
    \o "\",     \"path\" : \"IncludeInCorrespondence\",     \"op\" : \"replace\" }]"

(***************************************************************************)
(* Logging: the sequence of logging calls a function completed, each a     *)
(* pair <<level, what>>.  Lines that only log '\n' are left out.           *)
(***************************************************************************)
ErrorLines(whats) == [i \in 1..Len(whats) |-> <<"error", whats[i]>>]

\* lines 265-273
InsertLogHead ==
    ErrorLines(<<"INSERT CONTACT", "Failed to insert contact", "File", "Function",
                 "Line", "Account", "First Name", "Last Name", "Email">>)

\* lines 586-594
UpdateLogHead ==
    ErrorLines(<<"UPDATE CONTACT", "Failed to update contact", "File", "Function",
                 "Line", "Account", "First Name", "Last Name", "Email">>)

\* lines 410-416
DeleteLogHead ==
    ErrorLines(<<"DELETE CONTACT", "Failed to delete contact", "File", "Function",
                 "Line", "Account", "ContactId">>)

\* Faulty variant of add_contact_to_account: the last statement is
\* "return return_value".
add_contact_to_account_return_value(a, out) ==
    LET loc  == AddLocals(a)
        s    == contact_body_string(loc)
        body == json_loads(s)
        E(res, nreq, sent, lg) ==
            [result |-> res, requests |-> nreq, sentBody |-> sent, log |-> lg,
             locals |-> loc, bodyString |-> s]
        Handled(e) ==
            InsertLogHead \o ErrorLines(<<"contact_body", e, "----">>)
    IN
    IF ~body.ok
    THEN E(Raise("UnboundLocalError"), 0, JNone, InsertLogHead)
    ELSE IF out.transport
    THEN E(Return(JStr("")), Issue(0), body.val, Handled("ConnectionError"))
    ELSE IF raise_for_status(out.status)
    THEN E(Return(JStr("")), Issue(0), body.val, Handled("HTTPError"))
    ELSE IF ~CanDecode(out.body)
    THEN E(Return(JStr("")), Issue(0), body.val, Handled("JSONDecodeError"))
    ELSE E(Return(out.body), Issue(0), body.val, <<>>)

(***************************************************************************)
(* add_contact_to_account.  The handler logs contact_body, which is        *)
(* unbound when json.loads raised, and the function ends with              *)
(* "return contact_response.json()" outside the try block, where           *)
(* contact_response is unbound when requests.post raised.                  *)
(***************************************************************************)
add_contact_to_account(a, out) ==
    LET loc  == AddLocals(a)
        s    == contact_body_string(loc)
        body == json_loads(s)
        E(res, nreq, sent, lg) ==
            [result |-> res, requests |-> nreq, sentBody |-> sent, log |-> lg,
             locals |-> loc, bodyString |-> s]
        Handled(e) ==
            InsertLogHead \o ErrorLines(<<"contact_body", e, "----">>)
    IN
    IF ~body.ok
    THEN E(Raise("UnboundLocalError"), 0, JNone, InsertLogHead)
    ELSE IF out.transport
    THEN E(Raise("UnboundLocalError"), Issue(0), body.val, Handled("ConnectionError"))
    ELSE IF raise_for_status(out.status)
    THEN E(IF CanDecode(out.body) THEN Return(out.body) ELSE Raise("JSONDecodeError"),
           Issue(0), body.val, Handled("HTTPError"))
    ELSE IF ~CanDecode(out.body)
    THEN E(Raise("JSONDecodeError"), Issue(0), body.val, Handled("JSONDecodeError"))
    ELSE E(Return(out.body), Issue(0), body.val, <<>>)

(***************************************************************************)
(* contact_update.  return_value is first assigned after json.loads, so    *)
(* the handler's "len(return_value)" finds it unbound when json.loads      *)
(* raised.                                                                 *)
(***************************************************************************)
contact_update(a, out) ==
    LET loc  == UpdateLocals(a)
        s    == update_body_string(loc)
        body == json_loads(s)
        E(res, nreq, sent, lg) ==
            [result |-> res, requests |-> nreq, sentBody |-> sent, log |-> lg,
             locals |-> loc, bodyString |-> s]
        Handled(e) == UpdateLogHead \o ErrorLines(<<e, "----">>)
    IN
    IF ~body.ok
    THEN E(Raise("UnboundLocalError"), 0, JNone,
           UpdateLogHead \o ErrorLines(<<"JSONDecodeError">>))
    ELSE IF out.transport
    THEN E(Return(JStr("")), Issue(0), body.val, Handled("ConnectionError"))
    ELSE IF raise_for_status(out.status)
    THEN E(Return(JStr("")), Issue(0), body.val, Handled("HTTPError"))
    ELSE IF ~CanDecode(out.body)
    THEN E(Return(JStr("")), Issue(0), body.val, Handled("JSONDecodeError"))
    ELSE E(Return(out.body), Issue(0), body.val, <<>>)

(***************************************************************************)
(* contact_delete                                                          *)
(***************************************************************************)
contact_delete(a, out) ==
    LET Handled(e) == DeleteLogHead \o ErrorLines(<<e, "----">>) IN
    IF out.transport
    THEN Effect(Return(JNone), Issue(0), JNone, Handled("ConnectionError"))
    ELSE IF raise_for_status(out.status)
    THEN Effect(Return(JNone), Issue(0), JNone, Handled("HTTPError"))
    ELSE IF ~CanDecode(out.body)
    THEN Effect(Return(JNone), Issue(0), JNone, Handled("JSONDecodeError"))
    ELSE Effect(Return(JNone), Issue(0), JNone, <<>>)

(***************************************************************************)
(* contact_internalid_lookup: get_contacts_for_account, then the for loop. *)
(* The loop subscripts every contact it reaches, so a contact without a    *)
(* key that is read raises KeyError, which the except clause swallows.     *)
(***************************************************************************)
Found(v) == [kind |-> "found", val |-> v, exc |-> ""]

NotFound == [kind |-> "none", val |-> JNone, exc |-> ""]

LoopRaise(e) == [kind |-> "raise", val |-> JNone, exc |-> e]

\* Faulty variant of ScanContacts: keeps scanning and returns the last match.
RECURSIVE ScanContactsLast(_, _, _, _)
ScanContactsLast(contact_list, i, firstname, lastname) ==
    IF i > Len(contact_list) THEN NotFound
    ELSE
    LET contact == contact_list[i]
        rest    == ScanContactsLast(contact_list, i + 1, firstname, lastname)
    IN
    IF contact.t # "obj" THEN LoopRaise("TypeError")
    ELSE IF "firstName" \notin DOMAIN contact.v THEN LoopRaise("KeyError")
    ELSE IF contact.v["firstName"] # JStr(firstname) THEN rest
    ELSE IF "lastName" \notin DOMAIN contact.v THEN LoopRaise("KeyError")
    ELSE IF contact.v["lastName"] # JStr(lastname) THEN rest
    ELSE IF "id" \notin DOMAIN contact.v THEN LoopRaise("KeyError")
    ELSE IF rest.kind = "none" THEN Found(contact.v["id"])
    ELSE rest

\* for contact in contact_list, from the i-th item on.
RECURSIVE ScanContacts(_, _, _, _)
ScanContacts(contact_list, i, firstname, lastname) ==
    IF i > Len(contact_list) THEN NotFound
    ELSE
    LET contact == contact_list[i] IN
    IF contact.t # "obj" THEN LoopRaise("TypeError")
    ELSE IF "firstName" \notin DOMAIN contact.v THEN LoopRaise("KeyError")
    ELSE IF contact.v["firstName"] # JStr(firstname)
    THEN ScanContacts(contact_list, i + 1, firstname, lastname)
    ELSE IF "lastName" \notin DOMAIN contact.v THEN LoopRaise("KeyError")
    ELSE IF contact.v["lastName"] # JStr(lastname)
    THEN ScanContacts(contact_list, i + 1, firstname, lastname)
    ELSE IF "id" \notin DOMAIN contact.v THEN LoopRaise("KeyError")
    ELSE Found(contact.v["id"])

\* The loop over whatever the decoded body is: a list is scanned; iterating
\* a dict or a str yields strings, and subscripting one with 'firstName'
\* raises TypeError.
ForContactIn(body, firstname, lastname) ==
    IF body.t = "arr" THEN ScanContacts(body.v, 1, firstname, lastname)
    ELSE IF body.t = "obj"
    THEN IF DOMAIN body.v = {} THEN NotFound ELSE LoopRaise("TypeError")
    ELSE IF body.t = "str"
    THEN IF body.v = "" THEN NotFound ELSE LoopRaise("TypeError")
    ELSE LoopRaise("TypeError")

ContactWarning == <<"warning", "Failed to find contact internal id">>

contact_internalid_lookup(a, out) ==
    LET fetch == get_contacts_for_account(a, out)
        loop  == ForContactIn(fetch.result.val, a.firstname, a.lastname)
    IN
    IF fetch.result.kind = "raise"
    THEN Effect(Return(JStr("")), fetch.requests, JNone, <<ContactWarning>>)
    ELSE IF loop.kind = "raise"
    THEN Effect(Return(JStr("")), fetch.requests, JNone, <<ContactWarning>>)
    ELSE IF loop.kind = "found"
    THEN Effect(Return(loop.val), fetch.requests, JNone, <<>>)
    ELSE Effect(Return(JStr("")), fetch.requests, JNone, <<>>)

(***************************************************************************)
(* account_internalid_lookup                                               *)
(***************************************************************************)
AccountWarning == <<"warning", "Failed to find account internal id">>

\* Faulty variant of account_internalid_lookup: tenantId and custNo are not
\* read, so only a missing id ends in the warning.
account_internalid_lookup_id_only(a, out) ==
    LET Swallow == Effect(Return(JStr("")), Issue(0), JNone, <<AccountWarning>>) IN
    IF out.transport THEN Swallow
    ELSE IF raise_for_status(out.status) THEN Swallow
    ELSE IF ~CanDecode(out.body) THEN Swallow
    ELSE IF out.body.t # "obj" THEN Swallow
    ELSE IF "id" \notin DOMAIN out.body.v THEN Swallow
    ELSE Effect(Return(out.body.v["id"]), Issue(0), JNone, <<>>)

\* accounts_json['tenantId'], ['id'] and ['custNo'] are subscripted in this
\* order inside the try; a missing key (or a body that is not a dict) raises
\* into the except clause, which logs the warning and falls to return ''.
account_internalid_lookup(a, out) ==
    LET Swallow == Effect(Return(JStr("")), Issue(0), JNone, <<AccountWarning>>) IN
    IF out.transport THEN Swallow
    ELSE IF raise_for_status(out.status) THEN Swallow
    ELSE IF ~CanDecode(out.body) THEN Swallow
    ELSE IF out.body.t # "obj" THEN Swallow
    ELSE IF "tenantId" \notin DOMAIN out.body.v THEN Swallow
    ELSE IF "id" \notin DOMAIN out.body.v THEN Swallow
    ELSE IF "custNo" \notin DOMAIN out.body.v THEN Swallow
    ELSE Effect(Return(out.body.v["id"]), Issue(0), JNone, <<>>)

(***************************************************************************)
(* Bounds of the enumerated inputs.                                        *)
(***************************************************************************)
MaxNotesLen == 3

MaxLanguageLen == 3

MaxTimezoneLen == 5

MaxContacts == 2

MaxNameLen == 2

(***************************************************************************)
(* The caller's arguments.                                                 *)
(***************************************************************************)
RECURSIVE StringsUpTo(_, _)
StringsUpTo(alphabet, n) ==
    IF n = 0 THEN {""}
    ELSE LET S == StringsUpTo(alphabet, n - 1) IN
         S \cup {s \o c : s \in S, c \in alphabet}

LoginArgs == [email : {"me@example.com"}, password : {"pw", ""}]

LogoutArgs == {[access_token |-> "tok"]}

TenantArgs == {[access_token |-> "tok", tenant_id |-> "T1"]}

AccountArgs ==
    {[access_token |-> "tok", tenant_id |-> "T1", account_number |-> "A100"]}

LookupArgs ==
    [access_token : {"tok"}, tenant_id : {"T1"}, account_number : {"A100"},
     firstname : {"Jo", "jo"}, lastname : {"Smith", "Nobody"}]

DeleteArgs ==
    [access_token : {"tok"}, tenant_id : {"T1"}, account_number : {"A100"},
     contact_id : {"1", "2"}]

BaseContact ==
    [access_token |-> "tok", tenant_id |-> "T1",
     account_number |-> "A100", contact_id |-> "1",
     first_name |-> "Jo", last_name |-> "Doe", language |-> "en",
     timezone |-> "America/New_York", notes |-> "", email |-> "jo@example.com",
     officePhone |-> "555-0100", cellPhone |-> "", fax |-> "", title |-> "Dr",
     address1 |-> "1 Main St", address2 |-> "", city |-> "Austin", state |-> "TX",
     zip |-> "78701", country |-> "US", updatedOn |-> "", updatedBy |-> "",
     includeInCorrespondence |-> "true"]

NotesInputs == StringsUpTo({"x", "\"", "'"}, MaxNotesLen)

Languages == {SubSeq("french", 1, n) : n \in 0..MaxLanguageLen}

Timezones ==
    {SubSeq("Europe/Paris", 1, n) : n \in 0..MaxTimezoneLen}
        \cup {"CST", "America/New_York"}

FirstNames == {"Jo", "J\\o"}

LastNames == {"Doe", "D\\"}

\* Names with backslashes at every position (before a letter, before the n
\* of an escape, doubled, last), and two names with a double quote.
Names == StringsUpTo({"a", "n", "\\"}, MaxNameLen) \cup {"\"", "\\\""}

Countries == {"US", "CA"}

\* Plain, a lone double quote, a raw newline, a trailing backslash, an
\* escaped double quote, and two values that close the string they are
\* embedded in and open another one.
Emails ==
    {"jo@example.com", "\"", "a\nb", "a\\", "\\\"",
     "\",\"x\":\"", "\"},{\"value\":\""}

ContactArgs ==
    {[BaseContact EXCEPT !.notes = n] : n \in NotesInputs}
    \cup {[BaseContact EXCEPT !.language = l, !.timezone = z] :
             l \in Languages, z \in Timezones}
    \cup {[BaseContact EXCEPT !.first_name = f, !.last_name = l, !.email = e,
                              !.country = c] :
             f \in FirstNames, l \in LastNames, e \in Emails, c \in Countries}
    \cup {[BaseContact EXCEPT !.first_name = f, !.last_name = l] :
             f \in Names, l \in Names}

(***************************************************************************)
(* The server's response bodies.                                           *)
(***************************************************************************)
LoginBodies ==
    {JBad, ErrorBody, JArr(<<>>), JObj([accessToken |-> JStr("tok")]),
     JObj([accessToken |-> JStr("tok2"), expiresIn |-> JStr("3600")])}

ListBodies ==
    {JBad, ErrorBody, JArr(<<>>), JArr(<<JObj([id |-> JStr("1")])>>),
     JArr(<<JObj([id |-> JStr("1")]), JObj([id |-> JStr("2")])>>)}

MutationBodies == {JBad, ErrorBody, JObj([id |-> JStr("c1")])}

DeleteBodies == {JBad, JObj(EmptyDict)}

Absent == "-"

Ids == <<"1", "2", "3", "4", "5">>

\* A contact document with the keys that are not Absent.
ContactDoc(f, l, i) ==
    LET keys == {k \in {"firstName", "lastName", "id"} :
                    \/ k = "firstName" /\ f # Absent
                    \/ k = "lastName" /\ l # Absent
                    \/ k = "id" /\ i # Absent}
    IN JObj([k \in keys |->
                JStr(CASE k = "firstName" -> f [] k = "lastName" -> l [] OTHER -> i)])

ContactShapes == {"Jo", "jo", Absent} \X {"Doe", "Smith", Absent} \X BOOLEAN

\* The lists of at most MaxContacts contacts; the i-th has id Ids[i] or none.
ContactLists ==
    UNION {{[i \in 1..n |-> ContactDoc(q[i][1], q[i][2],
                                      IF q[i][3] THEN Ids[i] ELSE Absent)] :
               q \in [1..n -> ContactShapes]} : n \in 0..MaxContacts}

ContactBodies == {JBad, ErrorBody} \cup {JArr(q) : q \in ContactLists}

AccountDocs ==
    {JObj([k \in ks |-> JStr(CASE k = "tenantId" -> "T1" [] k = "id" -> "acc-7"
                              [] OTHER -> "A100")]) :
        ks \in SUBSET {"tenantId", "id", "custNo"}}

AccountBodies == {JBad, JArr(<<>>)} \cup AccountDocs

(***************************************************************************)
(* The specification.  The library keeps no state between calls, so a      *)
(* behaviour is one call: Init draws the function called, its arguments    *)
(* and the outcome the network and the server hold ready for its request;  *)
(* the action of that function runs it to its return or its exception.     *)
(***************************************************************************)
Pending(f, argset, bodies) ==
    /\ fn = f
    /\ args \in argset
    /\ outcome \in Outcomes(bodies)

Init ==
    /\ pc = "call"
    /\ \/ Pending("login", LoginArgs, LoginBodies)
       \/ Pending("logout", LogoutArgs, LoginBodies)
       \/ Pending("get_users_for_tenant", TenantArgs, ListBodies)
       \/ Pending("get_accounts_for_tenant", TenantArgs, ListBodies)
       \/ Pending("get_contacts_for_account", AccountArgs, ContactBodies)
       \/ Pending("add_contact_to_account", ContactArgs, MutationBodies)
       \/ Pending("contact_internalid_lookup", LookupArgs, ContactBodies)
       \/ Pending("account_internalid_lookup", AccountArgs, AccountBodies)
       \/ Pending("contact_delete", DeleteArgs, DeleteBodies)
       \/ Pending("contact_update", ContactArgs, MutationBodies)
    /\ locals = NoLocals
    /\ bodyString = ""
    /\ sentBody = JNone
    /\ requests = 0
    /\ log = <<>>
    /\ result = Return(JNone)

\* The pending call of f runs and has effect e.
Call(f, e) ==
    /\ pc = "call"
    /\ fn = f
    /\ pc' = "done"
    /\ locals' = e.locals
    /\ bodyString' = e.bodyString
    /\ sentBody' = e.sentBody
    /\ requests' = e.requests
    /\ log' = e.log
    /\ result' = e.result
    /\ UNCHANGED <<fn, args, outcome>>

Login == Call("login", login(args, outcome))

Logout == Call("logout", logout(args, outcome))

GetUsersForTenant ==
    Call("get_users_for_tenant", get_users_for_tenant(args, outcome))

GetAccountsForTenant ==
    Call("get_accounts_for_tenant", get_accounts_for_tenant(args, outcome))

GetContactsForAccount ==
    Call("get_contacts_for_account", get_contacts_for_account(args, outcome))

AddContactToAccount ==
    Call("add_contact_to_account", add_contact_to_account(args, outcome))

ContactInternalidLookup ==
    Call("contact_internalid_lookup", contact_internalid_lookup(args, outcome))

AccountInternalidLookup ==
    Call("account_internalid_lookup", account_internalid_lookup(args, outcome))

ContactDelete == Call("contact_delete", contact_delete(args, outcome))

ContactUpdate == Call("contact_update", contact_update(args, outcome))

Next ==
    \/ Login
    \/ Logout
    \/ GetUsersForTenant
    \/ GetAccountsForTenant
    \/ GetContactsForAccount
    \/ AddContactToAccount
    \/ ContactInternalidLookup
    \/ AccountInternalidLookup
    \/ ContactDelete
    \/ ContactUpdate

Spec == Init /\ [][Next]_vars

(***************************************************************************)
(* Vocabulary of the properties.                                           *)
(***************************************************************************)
Done(f) == pc = "done" /\ fn = f

DoneIn(fs) == pc = "done" /\ fn \in fs

Returned(v) == result.kind = "return" /\ result.val = v

Raised == result.kind = "raise"

\* The server answered (no transport failure) with a client or server error.
ErrorStatus == ~outcome.transport /\ outcome.status \in 400..599

\* The server answered with a status that is not a client or server error.
PassingStatus == ~outcome.transport /\ outcome.status \in 100..399

Decodable == outcome.body.t \in {"str", "obj", "arr"}

SwallowingFunctions ==
    {"contact_internalid_lookup", "account_internalid_lookup",
     "add_contact_to_account", "contact_update", "contact_delete"}

ReadFunctions ==
    {"get_users_for_tenant", "get_accounts_for_tenant", "get_contacts_for_account"}

LoggedError(e) == \E i \in 1..Len(log) : log[i] = <<"error", e>>

(***************************************************************************)
(* C1.  The lookup helpers and the mutating contact functions let no       *)
(* exception reach the caller: every call of one of them returns, and a    *)
(* call that met an error returns the sentinel (the empty string for the   *)
(* lookups and contact_update, nothing for contact_delete).                *)
(* The code does not do this: see C1_Escape_add and C1_Escape_update.      *)
(***************************************************************************)
C1_NoExceptionReachesCaller ==
    DoneIn(SwallowingFunctions) =>
        /\ result.kind = "return"
        /\ (log # <<>> /\ fn # "add_contact_to_account") =>
               Returned(IF fn = "contact_delete" THEN JNone ELSE JStr(""))

\* The two ways an exception escapes: the unbound contact_response or
\* contact_body in add_contact_to_account, the unbound return_value in
\* contact_update.
C1_Escape_add ==
    Done("add_contact_to_account") /\ outcome.transport /\ requests = 1
        /\ result = Raise("UnboundLocalError")

C1_Escape_update ==
    Done("contact_update") /\ requests = 0 /\ result = Raise("UnboundLocalError")

(***************************************************************************)
(* C2 as stated.  login, logout and the three read functions end in an     *)
(* error whenever the status is not 2xx or the body cannot be decoded (or, *)
(* for login, accessToken is absent); with a 2xx status and a decodable    *)
(* body the read functions return the body and login the accessToken.      *)
(***************************************************************************)
C2_Original ==
    DoneIn(ReadFunctions \cup {"login", "logout"}) /\ ~outcome.transport =>
        LET ok2xx   == outcome.status \in 200..299
            hasTok  == outcome.body.t = "obj" /\ "accessToken" \in DOMAIN outcome.body.v
        IN
        /\ (~ok2xx \/ ~Decodable) => Raised
        /\ (fn = "login" /\ ~hasTok) => Raised
        /\ (ok2xx /\ Decodable /\ fn \in ReadFunctions) => Returned(outcome.body)
        /\ (ok2xx /\ fn = "login" /\ hasTok) => Returned(outcome.body.v["accessToken"])

(***************************************************************************)
(* C2 amended.  The five functions end in an error whenever the request    *)
(* meets a transport failure or the status is 4xx or 5xx; login and the    *)
(* read functions also when the body cannot be decoded, and login when the *)
(* decoded body has no accessToken.  Otherwise the read functions return   *)
(* the decoded body unmodified, login returns exactly the accessToken      *)
(* field, and logout returns nothing, whatever the body is.                *)
(***************************************************************************)
C2_Propagate ==
    DoneIn(ReadFunctions \cup {"login", "logout"}) =>
        LET hasTok == outcome.body.t = "obj" /\ "accessToken" \in DOMAIN outcome.body.v
        IN
        /\ requests = 1 /\ log = <<>>
        /\ (outcome.transport \/ ErrorStatus) => Raised
        /\ (fn # "logout" /\ ~Decodable) => Raised
        /\ (fn = "login" /\ ~hasTok) => Raised
        /\ (PassingStatus /\ Decodable /\ fn \in ReadFunctions) => Returned(outcome.body)
        /\ (PassingStatus /\ fn = "login" /\ hasTok) =>
               Returned(outcome.body.v["accessToken"])
        /\ (PassingStatus /\ fn = "logout") => Returned(JNone)

\* logout returns normally on a 200 whose body is not JSON.
C2_Witness ==
    /\ Done("logout") /\ outcome.status = 200 /\ outcome.body = JBad
    /\ Returned(JNone)

C4_Original == pc = "done" => requests = 1

(***************************************************************************)
(* C4 amended.  Every call issues at most one HTTP request, never a second *)
(* one; it issues exactly one, except that add_contact_to_account and      *)
(* contact_update issue none when the body string they build fails to      *)
(* parse as JSON.                                                          *)
(***************************************************************************)
C4_AtMostOneRequest ==
    pc = "done" =>
        /\ requests \in {0, 1}
        /\ requests = 0 <=>
               (/\ fn \in {"add_contact_to_account", "contact_update"}
                /\ ~json_loads(bodyString).ok)

C4_Witness ==
    Done("contact_update") /\ args.email = "a\nb" /\ requests = 0 /\ Raised

(***************************************************************************)
(* Vocabulary of the properties about the request body.                    *)
(***************************************************************************)
\* The parameters contact_body_string embeds, in order, and their keys.
AddFields ==
    <<"first_name", "last_name", "language", "notes", "email", "officePhone",
      "cellPhone", "fax", "title", "address1", "address2", "timezone",
      "includeInCorrespondence">>

AddKeys ==
    <<"firstName", "lastName", "language", "notes", "email", "officePhone",
      "cellPhone", "fax", "title", "address1", "address2", "timezone",
      "IncludeInCorrespondence">>

\* The parameters update_body_string embeds, in order, and their paths.
UpdateFields ==
    <<"first_name", "last_name", "language", "notes", "email", "officePhone",
      "cellPhone", "fax", "title", "address1", "address2", "city", "state",
      "zip", "country", "timezone", "includeInCorrespondence">>

UpdatePaths ==
    <<"FirstName", "LastName", "Language", "Notes", "Email", "OfficePhone",
      "CellPhone", "Fax", "Title", "Address1", "Address2", "City", "State",
      "Zip", "Country", "TimeZone", "IncludeInCorrespondence">>

Range(q) == {q[i] : i \in 1..Len(q)}

Contains(s, chars) == \E i \in 1..Len(s) : Ch(s, i) \in chars

\* No double quote, no backslash, no control character.
PlainText(s) == ~Contains(s, {"\"", "\\", "\n", "\t", "\r", "\f"})

PlainFields(fields) == \A f \in Range(fields) : PlainText(args[f])

(***************************************************************************)
(* C5 as stated.  contact_update always emits exactly 17 operations, each  *)
(* with op "replace", with the paths in the fixed order, for every         *)
(* combination of caller-supplied field values.                            *)
(***************************************************************************)
C5_Original ==
    Done("contact_update") =>
        /\ requests = 1
        /\ sentBody.t = "arr"
        /\ Len(sentBody.v) = 17
        /\ \A i \in 1..Len(sentBody.v) :
               /\ sentBody.v[i].t = "obj"
               /\ DOMAIN sentBody.v[i].v = {"value", "path", "op"}
               /\ sentBody.v[i].v["op"] = JStr("replace")
               /\ sentBody.v[i].v["path"] = JStr(UpdatePaths[i])

(***************************************************************************)
(* C5 amended.  For every combination of caller-supplied field values that *)
(* contain no double quote, backslash or control character, contact_update *)
(* emits exactly 17 operations, each with op "replace", with the paths in  *)
(* the fixed order and the field values (notes sanitized, language and     *)
(* timezone defaulted) as their values, so identical inputs give an        *)
(* identical body.                                                         *)
(***************************************************************************)
C5_SeventeenReplaces ==
    (Done("contact_update") /\ PlainFields(UpdateFields)) =>
        /\ requests = 1
        /\ sentBody =
               JArr([i \in 1..17 |->
                       JObj([value |-> JStr(locals[UpdateFields[i]]),
                             path  |-> JStr(UpdatePaths[i]),
                             op    |-> JStr("replace")])])

C5_Witness ==
    /\ Done("contact_update") /\ args.country = "CA" /\ args.first_name = "Jo"
    /\ args.email = "jo@example.com" /\ requests = 1
    /\ Len(sentBody.v) = 17
    /\ sentBody.v[15].v["value"] = JStr("CA")

(***************************************************************************)
(* C6 as stated.  The body add_contact_to_account sends carries exactly    *)
(* first name, last name, language, timezone, notes, email, office and     *)
(* cell phone, fax, title, address lines 1 and 2, country and the          *)
(* include-in-correspondence flag: the caller's country value is in the    *)
(* body and no key outside this set is.                                    *)
(***************************************************************************)
C6_Original ==
    (Done("add_contact_to_account") /\ requests = 1) =>
        /\ sentBody.t = "obj"
        /\ DOMAIN sentBody.v = Range(AddKeys) \cup {"country"}
        /\ sentBody.v["country"] = JStr(args.country)

(***************************************************************************)
(* C6 amended.  Whenever the caller-supplied field values contain no       *)
(* double quote, backslash or control character, the body                  *)
(* add_contact_to_account sends carries exactly first name, last name,     *)
(* language, notes, email, office and cell phone, fax, title, address      *)
(* lines 1 and 2, timezone and the include-in-correspondence flag, each    *)
(* under its own key; country is not among them: the body has no country   *)
(* key and the caller's country value is not sent.                         *)
(***************************************************************************)
C6_BodyFields ==
    (Done("add_contact_to_account") /\ PlainFields(AddFields)) =>
        /\ requests = 1
        /\ sentBody.t = "obj"
        /\ DOMAIN sentBody.v = Range(AddKeys)
        /\ \A i \in 1..Len(AddKeys) :
               sentBody.v[AddKeys[i]] = JStr(locals[AddFields[i]])
        /\ "country" \notin DOMAIN sentBody.v

C6_Witness ==
    /\ Done("add_contact_to_account") /\ args.country = "CA" /\ requests = 1
    /\ args.email = "jo@example.com"
    /\ Cardinality(DOMAIN sentBody.v) = 13
    /\ "country" \notin DOMAIN sentBody.v

(***************************************************************************)
(* Double quotes that no backslash escapes: scanning s from position i,    *)
(* a backslash takes the character after it with it.                       *)
(***************************************************************************)
RECURSIVE UnescapedQuotes(_, _)
UnescapedQuotes(s, i) ==
    IF i > Len(s) THEN 0
    ELSE IF Ch(s, i) = "\\" THEN UnescapedQuotes(s, i + 2)
    ELSE IF Ch(s, i) = "\"" THEN 1 + UnescapedQuotes(s, i + 1)
    ELSE UnescapedQuotes(s, i + 1)

RECURSIVE SumOver(_, _)
SumOver(q, i) ==
    IF i > Len(q) THEN 0 ELSE UnescapedQuotes(locals[q[i]], 1) + SumOver(q, i + 1)

\* The values as embedded: notes sanitized, the names with their backslashes
\* doubled.
EmbeddedQuotes == SumOver(AddFields, 1)

EmbeddedControl ==
    \E f \in Range(AddFields) : Contains(locals[f], {"\n", "\t", "\r", "\f"})

(***************************************************************************)
(* C7 as stated.  In add_contact_to_account, if any caller-supplied field  *)
(* embedded in the body contains an unescaped double quote or a control    *)
(* character, the body string is malformed JSON, parsing fails, and no     *)
(* HTTP request is sent.                                                   *)
(***************************************************************************)
C7_Original ==
    (Done("add_contact_to_account") /\ (EmbeddedQuotes > 0 \/ EmbeddedControl)) =>
        requests = 0

(***************************************************************************)
(* C7 amended.  In add_contact_to_account, if the caller-supplied fields   *)
(* embedded in the body contain an odd number of unescaped double quotes,  *)
(* or a control character and no double quote, the body string is          *)
(* malformed JSON, parsing fails, and no HTTP request is sent.  A field    *)
(* whose double quotes close the string it is embedded in and open another *)
(* one, such as  ","x":"  , leaves the body well formed: it parses and the *)
(* request is sent.                                                        *)
(***************************************************************************)
C7_MalformedBodyNotSent ==
    Done("add_contact_to_account") =>
        /\ (\/ EmbeddedQuotes % 2 = 1
            \/ EmbeddedControl /\ ~(\E f \in Range(AddFields) : Contains(locals[f], {"\""})))
               => requests = 0 /\ sentBody = JNone /\ Raised
        /\ args.email = "\",\"x\":\"" =>
               requests = 1 /\ "x" \in DOMAIN sentBody.v

C7_Witness ==
    /\ Done("add_contact_to_account") /\ args.email = "\"" /\ requests = 0
    /\ sentBody = JNone

(***************************************************************************)
(* C8 as stated.  contact_internalid_lookup returns the id of the first    *)
(* contact, in list order, whose firstName and lastName both equal the     *)
(* given names exactly; it returns the empty string if no contact of the   *)
(* list matches or if fetching the list fails.                             *)
(***************************************************************************)
Has(contact, k) == contact.t = "obj" /\ k \in DOMAIN contact.v

Matches(contact) ==
    /\ Has(contact, "firstName") /\ contact.v["firstName"] = JStr(args.firstname)
    /\ Has(contact, "lastName") /\ contact.v["lastName"] = JStr(args.lastname)

FetchedList == PassingStatus /\ outcome.body.t = "arr"

FirstMatch ==
    LET L == outcome.body.v
        M == {i \in 1..Len(L) : Matches(L[i])}
    IN IF M = {} THEN 0 ELSE CHOOSE i \in M : \A j \in M : i <= j

C8_Original ==
    Done("contact_internalid_lookup") =>
        IF FetchedList /\ FirstMatch # 0
        THEN Has(outcome.body.v[FirstMatch], "id") =>
                 Returned(outcome.body.v[FirstMatch].v["id"])
        ELSE Returned(JStr(""))

(***************************************************************************)
(* C8 amended.  contact_internalid_lookup returns the id of the first      *)
(* contact, in list order, whose firstName and lastName both equal the     *)
(* given names exactly (case-sensitive), provided that contact has an id   *)
(* and every contact before it has a firstName and, if its firstName       *)
(* equals the given one, a lastName.  It returns the empty string if no    *)
(* contact matches, if fetching the list fails, or if the scan meets a     *)
(* contact without a key it reads before it returns.                       *)
(***************************************************************************)
\* The scan reads a key the i-th contact does not have.
Unreadable(contact) ==
    \/ ~Has(contact, "firstName")
    \/ contact.v["firstName"] = JStr(args.firstname) /\ ~Has(contact, "lastName")
    \/ Matches(contact) /\ ~Has(contact, "id")

C8_FirstMatch ==
    Done("contact_internalid_lookup") =>
        LET L == outcome.body.v
            m == FirstMatch
        IN
        /\ result.kind = "return"
        /\ requests = 1
        /\ IF FetchedList /\ m # 0 /\ \A j \in 1..m : ~Unreadable(L[j])
           THEN Returned(L[m].v["id"])
           ELSE Returned(JStr(""))

\* The example of the specification: the second of two contacts matches.
C8_Witness ==
    /\ Done("contact_internalid_lookup")
    /\ args.firstname = "Jo" /\ args.lastname = "Smith"
    /\ outcome.status = 200
    /\ outcome.body = JArr(<<ContactDoc("Jo", "Doe", "1"), ContactDoc("Jo", "Smith", "2")>>)
    /\ Returned(JStr("2"))

(***************************************************************************)
(* C9.  In both add_contact_to_account and contact_update, the language    *)
(* placed in the body is "en" whenever the caller's language has fewer     *)
(* than 2 characters and the caller's value otherwise; the timezone placed *)
(* in the body is "America/Chicago" whenever the caller's timezone has     *)
(* fewer than 4 characters and the caller's value otherwise.               *)
(***************************************************************************)
BodyValue(field) ==
    IF fn = "add_contact_to_account"
    THEN sentBody.v[field]
    ELSE sentBody.v[IF field = "language" THEN 3 ELSE 16].v["value"]

C9_Defaulting ==
    DoneIn({"add_contact_to_account", "contact_update"}) =>
        /\ Len(args.language) \in {0, 1} => locals.language = "en"
        /\ Len(args.language) >= 2 => locals.language = args.language
        /\ Len(args.timezone) \in 0..3 => locals.timezone = "America/Chicago"
        /\ Len(args.timezone) >= 4 => locals.timezone = args.timezone
        /\ requests = 1 /\ PlainFields(UpdateFields) =>
               /\ BodyValue("language") = JStr(locals.language)
               /\ BodyValue("timezone") = JStr(locals.timezone)

C9_Witness ==
    /\ Done("add_contact_to_account") /\ args.timezone = "CST" /\ args.language = ""
    /\ requests = 1
    /\ sentBody.v["timezone"] = JStr("America/Chicago")
    /\ sentBody.v["language"] = JStr("en")

(***************************************************************************)
(* C10.  For any input notes string, the notes value embedded in the body  *)
(* by add_contact_to_account and by contact_update contains no double      *)
(* quote and no single quote, and equals the input with exactly those      *)
(* characters removed and all other characters kept in order.              *)
(***************************************************************************)
\* s without its quote characters, built from the right end.
RECURSIVE WithoutQuotes(_)
WithoutQuotes(s) ==
    IF Len(s) = 0 THEN ""
    ELSE LET last == SubSeq(s, Len(s), Len(s))
             init == WithoutQuotes(SubSeq(s, 1, Len(s) - 1))
         IN IF last \in {"\"", "'"} THEN init ELSE init \o last

NotesValue ==
    IF fn = "add_contact_to_account"
    THEN sentBody.v["notes"]
    ELSE sentBody.v[4].v["value"]

C10_NotesSanitized ==
    DoneIn({"add_contact_to_account", "contact_update"}) =>
        /\ ~Contains(locals.notes, {"\"", "'"})
        /\ locals.notes = WithoutQuotes(args.notes)
        /\ (/\ \A f \in Range(UpdateFields) \ {"notes"} : PlainText(args[f])
            /\ PlainText(locals.notes)) =>
               /\ requests = 1
               /\ NotesValue = JStr(WithoutQuotes(args.notes))

C10_Witness ==
    /\ Done("contact_update") /\ args.notes = "\"x'" /\ requests = 1
    /\ sentBody.v[4].v["value"] = JStr("x")

(***************************************************************************)
(* C11.  account_internalid_lookup returns the response's id field only    *)
(* when the response body contains all three of tenantId, id and custNo,   *)
(* and a 2xx response whose body contains all three makes it return that   *)
(* id; if tenantId or custNo is absent from a 2xx response the call        *)
(* returns the empty string (and logs the warning) even though id is       *)
(* present, so the reads of tenantId and custNo affect the result.         *)
(***************************************************************************)
AccountKeys == {"tenantId", "id", "custNo"}

Success2xx == ~outcome.transport /\ outcome.status \in 200..299

BodyHas(keys) == outcome.body.t = "obj" /\ keys \subseteq DOMAIN outcome.body.v

C11_AllThreeKeys ==
    Done("account_internalid_lookup") =>
        /\ result.kind = "return"
        /\ result.val # JStr("") =>
               BodyHas(AccountKeys) /\ result.val = outcome.body.v["id"]
        /\ (Success2xx /\ BodyHas(AccountKeys)) =>
               Returned(outcome.body.v["id"]) /\ log = <<>>
        /\ (Success2xx /\ BodyHas({"id"}) /\ ~BodyHas(AccountKeys)) =>
               /\ Returned(JStr(""))
               /\ log = <<<<"warning", "Failed to find account internal id">>>>
        /\ requests = 1

C11_Witness ==
    /\ Done("account_internalid_lookup")
    /\ Success2xx
    /\ BodyHas({"id", "custNo"}) /\ ~BodyHas({"tenantId"})
    /\ Returned(JStr(""))
    /\ Len(log) = 1

\* The other side of the same case: all three keys present, the id returned.
C11_Witness_id ==
    /\ Done("account_internalid_lookup")
    /\ Success2xx
    /\ BodyHas(AccountKeys)
    /\ Returned(JStr("acc-7"))

(***************************************************************************)
(* C12.  In add_contact_to_account, for every first_name and last_name     *)
(* that contain backslashes but no double quote or control character (the  *)
(* other embedded fields being free of double quotes, backslashes and      *)
(* control characters, so that they leave the body well formed), doubling  *)
(* the backslashes and then decoding the body string is a round trip: the  *)
(* body is sent, and its firstName and lastName equal the caller's         *)
(* original strings character for character.                               *)
(***************************************************************************)
NameText(s) == ~Contains(s, {"\"", "\n", "\t", "\r", "\f"})

\* s with every backslash written twice, built from the right end.
RECURSIVE Doubled(_)
Doubled(s) ==
    IF Len(s) = 0 THEN ""
    ELSE LET last == SubSeq(s, Len(s), Len(s))
             init == Doubled(SubSeq(s, 1, Len(s) - 1))
         IN IF last = "\\" THEN init \o "\\\\" ELSE init \o last

C12_BackslashRoundTrip ==
    (/\ Done("add_contact_to_account")
     /\ NameText(args.first_name) /\ NameText(args.last_name)
     /\ \A f \in Range(AddFields) \ {"first_name", "last_name"} :
            PlainText(args[f])) =>
        /\ locals.first_name = Doubled(args.first_name)
        /\ locals.last_name = Doubled(args.last_name)
        /\ requests = 1
        /\ sentBody.t = "obj"
        /\ sentBody.v["firstName"] = JStr(args.first_name)
        /\ sentBody.v["lastName"] = JStr(args.last_name)

\* A backslash before n (an escape if left single) and a backslash last
\* (it would escape the closing quote if left single).
C12_Witness ==
    /\ Done("add_contact_to_account")
    /\ args.first_name = "\\n" /\ args.last_name = "a\\"
    /\ locals.first_name = "\\\\n"
    /\ requests = 1
    /\ sentBody.v["firstName"] = JStr("\\n")
    /\ sentBody.v["lastName"] = JStr("a\\")

====
